---- MODULE Spec2Model ----
(***************************************************************************)
(* Model of src/helpers/33Together.js: the PoolTogether ("33Together")     *)
(* helpers of the front-end.                                               *)
(*                                                                         *)
(*  - Spec      : the three listen helpers, the event-listener facility    *)
(*                they drive, the handlers they register and the reload    *)
(*                timer the handlers schedule.                             *)
(*  - FairSpec  : Spec with the scheduling of the host event loop.         *)
(*  - OddsSpec  : calculateOdds applied to bounded inputs.                 *)
(*  - CreditSpec: getCreditMaturationDaysAndLimitPercentage applied to     *)
(*                bounded inputs.                                          *)
(*                                                                         *)
(* The caller-supplied eventHandler and the facility's remove are taken to *)
(* return normally; the only exception modelled is the TypeError of the    *)
(* address lookup.                                                         *)
(***************************************************************************)
EXTENDS Integers, Sequences, FiniteSets, TLC

VARIABLES listeners, nextId, calls, timers, run, pc, reloaded, result, last,
          args, ret

vars == <<listeners, nextId, calls, timers, run, pc, reloaded, result, last, args, ret>>

pageVars == <<listeners, nextId, calls, timers, run, pc, reloaded, result, last>>

(* ---------------------------- bounds ----------------------------------- *)

\* registrations made during one page life
MaxRegs == 3

(* ------------------------ configuration -------------------------------- *)

\* network ids passed by callers; 5 has no entry in the address table
NetworkIds == {4, 5}

SecondsLeftValues == {-1, 0, 5}

\* ../constants: addresses[networkID].POOL_TOGETHER
addresses ==
  [n \in {4} |->
     [POOL_TOGETHER |->
        [PRIZE_STRATEGY_ADDRESS |-> <<"PRIZE_STRATEGY_ADDRESS", n>>,
         PRIZE_POOL_ADDRESS     |-> <<"PRIZE_POOL_ADDRESS", n>>]]]

RNGCompleteTopic == "RandomNumberCompleted(uint32,uint256)"

DepositTopic == "Deposited(address,address,address,uint256,address)"

RNGStartTopic == "RandomNumberRequested(uint32,address)"

Topics == {RNGCompleteTopic, DepositTopic, RNGStartTopic}

Addresses ==
  UNION {{addresses[n].POOL_TOGETHER.PRIZE_STRATEGY_ADDRESS,
          addresses[n].POOL_TOGETHER.PRIZE_POOL_ADDRESS} : n \in DOMAIN addresses}

\* a listener is registered under a (topic, contract address) filter
Pairs == Topics \X Addresses

NoPair == <<>>

\* the most recent operation: its name, its networkID and secondsLeft
\* arguments, and the (topic, contract address) filter it worked on
Op(name, networkID, secondsLeft, p) ==
  [op |-> name, net |-> networkID, secs |-> secondsLeft, p |-> p]

NoArgs == Op("none", 0, 0, NoPair)

(* ------------------- ./ethersEventListener ----------------------------- *)

\* The registry is that of one provider: every helper passes its provider
\* argument through unchanged.

\* provider.on(filter, handlerFunc): one more listener under the filter
addEthersEventListener(reg, topicString, contractAddress, h) ==
  [reg EXCEPT ![<<topicString, contractAddress>>] = Append(@, h)]

\* provider.removeAllListeners(filter): no listener left under the filter
removeEthersEventListener(reg, topicString, contractAddress) ==
  [reg EXCEPT ![<<topicString, contractAddress>>] = <<>>]

(* --------------------------- the page ---------------------------------- *)

PageInit ==
  /\ listeners = [p \in Pairs |-> <<>>]
  /\ nextId = 1
  /\ calls = <<>>
  /\ timers = 0
  /\ run = <<>>
  /\ pc = "idle"
  /\ reloaded = FALSE
  /\ result = "ok"
  /\ last = NoArgs

\* the event loop is free to start a new task
Idle == pc = "idle" /\ ~reloaded

\* the closure created by a helper: it captures topicString and contractAddress
handlerFunc(topicString, contractAddress) ==
  [id |-> nextId, topic |-> topicString, addr |-> contractAddress]

\* LookupFails with the error caught and dropped
LookupFails_Swallowed(name, networkID, secondsLeft) ==
  /\ networkID \notin DOMAIN addresses
  /\ result' = "ok"
  /\ last' = Op(name, networkID, secondsLeft, NoPair)
  /\ UNCHANGED <<listeners, nextId, calls, timers, run, pc, reloaded, args, ret>>

\* addresses[networkID].POOL_TOGETHER of an absent networkID: TypeError,
\* thrown before anything else is done
LookupFails(name, networkID, secondsLeft) ==
  /\ networkID \notin DOMAIN addresses
  /\ result' = "TypeError"
  /\ last' = Op(name, networkID, secondsLeft, NoPair)
  /\ UNCHANGED <<listeners, nextId, calls, timers, run, pc, reloaded, args, ret>>

\* Register with the add call made twice
Register_Twice(name, networkID, secondsLeft, topicString, contractAddress) ==
  /\ nextId <= MaxRegs
  /\ listeners' = addEthersEventListener(
                    addEthersEventListener(listeners, topicString, contractAddress,
                                           handlerFunc(topicString, contractAddress)),
                    topicString, contractAddress, handlerFunc(topicString, contractAddress))
  /\ nextId' = nextId + 1
  /\ result' = "ok"
  /\ last' = Op(name, networkID, secondsLeft, <<topicString, contractAddress>>)
  /\ UNCHANGED <<calls, timers, run, pc, reloaded, args, ret>>

\* addEthersEventListener(provider, topicString, contractAddress, handlerFunc)
Register(name, networkID, secondsLeft, topicString, contractAddress) ==
  /\ nextId <= MaxRegs
  /\ listeners' = addEthersEventListener(listeners, topicString, contractAddress,
                                         handlerFunc(topicString, contractAddress))
  /\ nextId' = nextId + 1
  /\ result' = "ok"
  /\ last' = Op(name, networkID, secondsLeft, <<topicString, contractAddress>>)
  /\ UNCHANGED <<calls, timers, run, pc, reloaded, args, ret>>

listenAndHandleRNGCompleteEvent(networkID) ==
  /\ Idle
  /\ \/ LookupFails("listenAndHandleRNGCompleteEvent", networkID, 0)
     \/ /\ networkID \in DOMAIN addresses
        /\ Register("listenAndHandleRNGCompleteEvent", networkID, 0, RNGCompleteTopic,
                    addresses[networkID].POOL_TOGETHER.PRIZE_STRATEGY_ADDRESS)

listenAndHandleDepositEvent(networkID) ==
  /\ Idle
  /\ \/ LookupFails("listenAndHandleDepositEvent", networkID, 0)
     \/ /\ networkID \in DOMAIN addresses
        /\ Register("listenAndHandleDepositEvent", networkID, 0, DepositTopic,
                    addresses[networkID].POOL_TOGETHER.PRIZE_POOL_ADDRESS)

\* listenAndHandleRNGStartEvent with the test secondsLeft < 0
listenAndHandleRNGStartEvent_StrictGate(networkID, secondsLeft) ==
  /\ Idle
  /\ \/ LookupFails("listenAndHandleRNGStartEvent", networkID, secondsLeft)
     \/ /\ networkID \in DOMAIN addresses
        /\ secondsLeft < 0
        /\ Register("listenAndHandleRNGStartEvent", networkID, secondsLeft, RNGStartTopic,
                    addresses[networkID].POOL_TOGETHER.PRIZE_STRATEGY_ADDRESS)
     \/ /\ networkID \in DOMAIN addresses
        /\ ~(secondsLeft < 0)
        /\ listeners' = removeEthersEventListener(listeners, RNGStartTopic,
                          addresses[networkID].POOL_TOGETHER.PRIZE_STRATEGY_ADDRESS)
        /\ result' = "ok"
        /\ last' = Op("listenAndHandleRNGStartEvent", networkID, secondsLeft,
                      <<RNGStartTopic, addresses[networkID].POOL_TOGETHER.PRIZE_STRATEGY_ADDRESS>>)
        /\ timers' = timers
        /\ UNCHANGED <<nextId, calls, run, pc, reloaded, args, ret>>

\* listenAndHandleRNGStartEvent with a cleanup that also clears the reload timers
listenAndHandleRNGStartEvent_ClearsTimer(networkID, secondsLeft) ==
  /\ Idle
  /\ \/ LookupFails("listenAndHandleRNGStartEvent", networkID, secondsLeft)
     \/ /\ networkID \in DOMAIN addresses
        /\ secondsLeft <= 0
        /\ Register("listenAndHandleRNGStartEvent", networkID, secondsLeft, RNGStartTopic,
                    addresses[networkID].POOL_TOGETHER.PRIZE_STRATEGY_ADDRESS)
     \/ /\ networkID \in DOMAIN addresses
        /\ ~(secondsLeft <= 0)
        /\ listeners' = removeEthersEventListener(listeners, RNGStartTopic,
                          addresses[networkID].POOL_TOGETHER.PRIZE_STRATEGY_ADDRESS)
        /\ result' = "ok"
        /\ last' = Op("listenAndHandleRNGStartEvent", networkID, secondsLeft,
                      <<RNGStartTopic, addresses[networkID].POOL_TOGETHER.PRIZE_STRATEGY_ADDRESS>>)
        /\ timers' = 0
        /\ UNCHANGED <<nextId, calls, run, pc, reloaded, args, ret>>

\* listenAndHandleRNGStartEvent with a cleanup of the RNG-complete topic
listenAndHandleRNGStartEvent_WrongTopic(networkID, secondsLeft) ==
  /\ Idle
  /\ \/ LookupFails("listenAndHandleRNGStartEvent", networkID, secondsLeft)
     \/ /\ networkID \in DOMAIN addresses
        /\ secondsLeft <= 0
        /\ Register("listenAndHandleRNGStartEvent", networkID, secondsLeft, RNGStartTopic,
                    addresses[networkID].POOL_TOGETHER.PRIZE_STRATEGY_ADDRESS)
     \/ /\ networkID \in DOMAIN addresses
        /\ ~(secondsLeft <= 0)
        /\ listeners' = removeEthersEventListener(listeners, RNGCompleteTopic,
                          addresses[networkID].POOL_TOGETHER.PRIZE_STRATEGY_ADDRESS)
        /\ result' = "ok"
        /\ last' = Op("listenAndHandleRNGStartEvent", networkID, secondsLeft,
                      <<RNGStartTopic, addresses[networkID].POOL_TOGETHER.PRIZE_STRATEGY_ADDRESS>>)
        /\ timers' = timers
        /\ UNCHANGED <<nextId, calls, run, pc, reloaded, args, ret>>

listenAndHandleRNGStartEvent(networkID, secondsLeft) ==
  /\ Idle
  /\ \/ LookupFails("listenAndHandleRNGStartEvent", networkID, secondsLeft)
     \/ /\ networkID \in DOMAIN addresses
        /\ secondsLeft <= 0
        /\ Register("listenAndHandleRNGStartEvent", networkID, secondsLeft, RNGStartTopic,
                    addresses[networkID].POOL_TOGETHER.PRIZE_STRATEGY_ADDRESS)
     \/ /\ networkID \in DOMAIN addresses
        /\ secondsLeft > 0
        /\ listeners' = removeEthersEventListener(listeners, RNGStartTopic,
                          addresses[networkID].POOL_TOGETHER.PRIZE_STRATEGY_ADDRESS)
        /\ result' = "ok"
        /\ last' = Op("listenAndHandleRNGStartEvent", networkID, secondsLeft,
                      <<RNGStartTopic, addresses[networkID].POOL_TOGETHER.PRIZE_STRATEGY_ADDRESS>>)
        /\ UNCHANGED <<nextId, calls, timers, run, pc, reloaded, args, ret>>

\* the provider sees a log matching the filter p and calls the listeners
\* registered under it: all of those registered when the log arrives, or
\* only the first one when the facility drops listeners removed meanwhile
Deliver(p) ==
  /\ Idle
  /\ timers < MaxRegs
  /\ \E k \in {IF listeners[p] = <<>> THEN 0 ELSE 1, Len(listeners[p])} :
       run' = SubSeq(listeners[p], 1, k)
  /\ pc' = IF listeners[p] = <<>> THEN "idle" ELSE "remove"
  /\ last' = Op("event", 0, 0, p)
  /\ UNCHANGED <<listeners, nextId, calls, timers, reloaded, result, args, ret>>

\* handlerFunc without its first statement
handlerFunc_remove_Skipped ==
  /\ pc = "remove"
  /\ pc' = "eventHandler"
  /\ last' = Op("handlerFunc", 0, 0, last.p)
  /\ UNCHANGED <<listeners, nextId, calls, timers, run, reloaded, result, args, ret>>

\* handlerFunc removing the topic of the RNG-complete helper, whatever its own
handlerFunc_remove_WrongTopic ==
  /\ pc = "remove"
  /\ listeners' = removeEthersEventListener(listeners, RNGCompleteTopic, Head(run).addr)
  /\ pc' = "eventHandler"
  /\ last' = Op("handlerFunc", 0, 0, last.p)
  /\ UNCHANGED <<nextId, calls, timers, run, reloaded, result, args, ret>>

\* handlerFunc, first statement: removeEthersEventListener(provider, topicString, contractAddress)
handlerFunc_remove ==
  /\ pc = "remove"
  /\ listeners' = removeEthersEventListener(listeners, Head(run).topic, Head(run).addr)
  /\ pc' = "eventHandler"
  /\ last' = Op("handlerFunc", 0, 0, last.p)
  /\ UNCHANGED <<nextId, calls, timers, run, reloaded, result, args, ret>>

\* handlerFunc, second statement: eventHandler()
handlerFunc_eventHandler ==
  /\ pc = "eventHandler"
  /\ calls' = IF Head(run) \in DOMAIN calls
                THEN [calls EXCEPT ![Head(run)] = @ + 1]
                ELSE calls @@ (Head(run) :> 1)
  /\ pc' = "setTimeout"
  /\ last' = Op("handlerFunc", 0, 0, last.p)
  /\ UNCHANGED <<listeners, nextId, timers, run, reloaded, result, args, ret>>

\* handlerFunc, third statement: setTimeout(() => window.location.reload(), 15000)
handlerFunc_setTimeout ==
  /\ pc = "setTimeout"
  /\ timers' = timers + 1
  /\ run' = Tail(run)
  /\ pc' = IF Tail(run) = <<>> THEN "idle" ELSE "remove"
  /\ last' = Op("handlerFunc", 0, 0, last.p)
  /\ UNCHANGED <<listeners, nextId, calls, reloaded, result, args, ret>>

\* a reload timer expires: window.location.reload() ends the page
Reload ==
  /\ Idle
  /\ timers > 0
  /\ reloaded' = TRUE
  /\ last' = Op("reload", 0, 0, NoPair)
  /\ UNCHANGED <<listeners, nextId, calls, timers, run, pc, result, args, ret>>

Init ==
  /\ PageInit
  /\ args = NoArgs
  /\ ret = [t |-> "none"]

Next ==
  \/ \E n \in NetworkIds : listenAndHandleRNGCompleteEvent(n)
  \/ \E n \in NetworkIds : listenAndHandleDepositEvent(n)
  \/ \E n \in NetworkIds, s \in SecondsLeftValues : listenAndHandleRNGStartEvent(n, s)
  \/ \E p \in Pairs : Deliver(p)
  \/ handlerFunc_remove
  \/ handlerFunc_eventHandler
  \/ handlerFunc_setTimeout
  \/ Reload

Spec == Init /\ [][Next]_vars

\* the host runs a handler to completion, and runs an expired timer the
\* next time the event loop is free
FairSpec ==
  /\ Spec
  /\ WF_vars(handlerFunc_remove)
  /\ WF_vars(handlerFunc_eventHandler)
  /\ WF_vars(handlerFunc_setTimeout)
  /\ SF_vars(Reload)

TypeOK ==
  /\ nextId \in 1..(MaxRegs + 1)
  /\ timers \in 0..(MaxRegs + 1)
  /\ pc \in {"idle", "remove", "eventHandler", "setTimeout"}

(* ------------------------- JavaScript values --------------------------- *)

\* A number is a fraction n/d in lowest terms with d >= 0: d = 0 stands for
\* Infinity (n = 1), -Infinity (n = -1) and NaN (n = 0).  The sign of a zero
\* is not kept.
Abs(x) == IF x < 0 THEN -x ELSE x

Sgn(x) == IF x < 0 THEN -1 ELSE IF x > 0 THEN 1 ELSE 0

RECURSIVE Gcd(_, _)
Gcd(a, b) == IF b = 0 THEN a ELSE Gcd(b, a % b)

Num(n, d) ==
  IF d = 0 THEN [t |-> "number", n |-> Sgn(n), d |-> 0]
  ELSE LET g == Gcd(Abs(n), Abs(d))
       IN [t |-> "number", n |-> (Sgn(d) * n) \div g, d |-> Abs(d) \div g]

NaN == Num(0, 0)

Infinity == Num(1, 0)

Undefined == [t |-> "undefined"]

Str(chars) == [t |-> "string", s |-> chars]

IsNaN(x) == x.n = 0 /\ x.d = 0

\* x - y
Minus(x, y) ==
  IF IsNaN(x) \/ IsNaN(y) THEN NaN
  ELSE IF x.d = 0 /\ y.d = 0 THEN (IF x.n = y.n THEN NaN ELSE x)
  ELSE IF x.d = 0 THEN x
  ELSE IF y.d = 0 THEN Num(-y.n, 0)
  ELSE Num(x.n * y.d - y.n * x.d, x.d * y.d)

\* x * y
Times(x, y) ==
  IF IsNaN(x) \/ IsNaN(y) THEN NaN
  ELSE Num(x.n * y.n, x.d * y.d)

\* x / y
Over(x, y) ==
  IF IsNaN(x) \/ IsNaN(y) THEN NaN
  ELSE IF x.d = 0 /\ y.d = 0 THEN NaN
  ELSE IF x.d = 0 THEN Num(x.n * (IF y.n < 0 THEN -1 ELSE 1), 0)
  ELSE IF y.d = 0 THEN Num(0, 1)
  ELSE Num(x.n * y.d * (IF y.n < 0 THEN -1 ELSE 1), x.d * Abs(y.n))

RECURSIVE IntPow(_, _)
IntPow(b, e) == IF e = 0 THEN 1 ELSE b * IntPow(b, e - 1)

\* Math.pow(x, e) for an integer e >= 0; Math.pow(x, 0) is 1 for every x
MathPow(x, e) == IF e = 0 THEN Num(1, 1) ELSE Num(IntPow(x.n, e), IntPow(x.d, e))

\* Math.round(x): the integer nearest to x, a tie going up
MathRound(x) == IF x.d = 0 THEN x ELSE Num((2 * x.n + x.d) \div (2 * x.d), 1)

Digits == <<"0", "1", "2", "3", "4", "5", "6", "7", "8", "9">>

IsDigit(c) == \E i \in 1..10 : Digits[i] = c

DigitVal(c) == (CHOOSE i \in 1..10 : Digits[i] = c) - 1

WhiteSpace == {" "}

RECURSIVE SkipWhiteSpace(_)
SkipWhiteSpace(cs) ==
  IF cs # <<>> /\ Head(cs) \in WhiteSpace THEN SkipWhiteSpace(Tail(cs)) ELSE cs

RECURSIVE DropTrailingWhiteSpace(_)
DropTrailingWhiteSpace(cs) ==
  IF cs # <<>> /\ cs[Len(cs)] \in WhiteSpace
    THEN DropTrailingWhiteSpace(SubSeq(cs, 1, Len(cs) - 1)) ELSE cs

\* the longest prefix of cs made of digits
RECURSIVE DigitPrefix(_)
DigitPrefix(cs) ==
  IF cs # <<>> /\ IsDigit(Head(cs)) THEN <<Head(cs)>> \o DigitPrefix(Tail(cs)) ELSE <<>>

RECURSIVE DigitsValue(_)
DigitsValue(ds) ==
  IF ds = <<>> THEN 0 ELSE 10 * DigitsValue(SubSeq(ds, 1, Len(ds) - 1)) + DigitVal(ds[Len(ds)])

StartsWith(cs, pre) == Len(cs) >= Len(pre) /\ SubSeq(cs, 1, Len(pre)) = pre

InfinityChars == <<"I", "n", "f", "i", "n", "i", "t", "y">>

\* The longest prefix of cs that is a StrDecimalLiteral without exponent:
\* [sign, integer digits, fraction digits, rest, kind], kind "none" when no
\* prefix of cs is a literal.
ScanDecimal(cs) ==
  LET sign == IF cs # <<>> /\ Head(cs) = "-" THEN -1 ELSE 1
      body == IF cs # <<>> /\ Head(cs) \in {"-", "+"} THEN Tail(cs) ELSE cs
      ip   == DigitPrefix(body)
      r1   == SubSeq(body, Len(ip) + 1, Len(body))
      hasDot == r1 # <<>> /\ Head(r1) = "."
      fp   == IF hasDot THEN DigitPrefix(Tail(r1)) ELSE <<>>
      dotTaken == hasDot /\ (ip # <<>> \/ fp # <<>>)
      r2   == IF dotTaken THEN SubSeq(r1, Len(fp) + 2, Len(r1)) ELSE r1
  IN IF StartsWith(body, InfinityChars)
       THEN [kind |-> "inf", sign |-> sign, ip |-> <<>>, fp |-> <<>>,
             rest |-> SubSeq(body, 9, Len(body))]
     ELSE IF ip = <<>> /\ fp = <<>>
       THEN [kind |-> "none", sign |-> sign, ip |-> <<>>, fp |-> <<>>, rest |-> cs]
     ELSE [kind |-> "fin", sign |-> sign, ip |-> ip, fp |-> fp, rest |-> r2]

ScanValue(sc) ==
  IF sc.kind = "inf" THEN Num(sc.sign, 0)
  ELSE Num(sc.sign * (DigitsValue(sc.ip) * IntPow(10, Len(sc.fp)) + DigitsValue(sc.fp)),
           IntPow(10, Len(sc.fp)))

RECURSIVE NatToChars(_)
NatToChars(k) ==
  IF k < 10 THEN <<Digits[k + 1]>> ELSE NatToChars(k \div 10) \o <<Digits[(k % 10) + 1]>>

\* the decimal digits of num/den after the point, for a den that divides a
\* power of ten
RECURSIVE FractionChars(_, _)
FractionChars(num, den) ==
  IF num = 0 THEN <<>>
  ELSE <<Digits[((10 * num) \div den) + 1]>> \o FractionChars((10 * num) % den, den)

\* Number::toString for the numbers of the model
NumberToString(x) ==
  IF IsNaN(x) THEN <<"N", "a", "N">>
  ELSE IF x.d = 0 THEN (IF x.n < 0 THEN <<"-">> ELSE <<>>) \o InfinityChars
  ELSE (IF x.n < 0 THEN <<"-">> ELSE <<>>)
       \o NatToChars(Abs(x.n) \div x.d)
       \o (IF Abs(x.n) % x.d = 0 THEN <<>> ELSE <<".">> \o FractionChars(Abs(x.n) % x.d, x.d))

JSToString(v) ==
  IF v.t = "string" THEN v.s
  ELSE IF v.t = "undefined" THEN <<"u", "n", "d", "e", "f", "i", "n", "e", "d">>
  ELSE NumberToString(v)

\* parseFloat(v): the value of the longest literal prefix of the trimmed
\* string of v, NaN when there is none
parseFloat(v) ==
  LET sc == ScanDecimal(SkipWhiteSpace(JSToString(v)))
  IN IF sc.kind = "none" THEN NaN ELSE ScanValue(sc)

\* ToNumber(v), the conversion an arithmetic operator applies to an operand
ToNumber(v) ==
  IF v.t = "number" THEN v
  ELSE IF v.t = "undefined" THEN NaN
  ELSE LET cs == DropTrailingWhiteSpace(SkipWhiteSpace(v.s))
           sc == ScanDecimal(cs)
       IN IF cs = <<>> THEN Num(0, 1)
          ELSE IF sc.kind = "none" \/ sc.rest # <<>> THEN NaN
          ELSE ScanValue(sc)

\* v === 0
StrictEqualsZero(v) == v.t = "number" /\ v.n = 0 /\ v.d # 0

(* --------------------------- calculateOdds ----------------------------- *)

Marker == Str(<<"n", "g", "m", "i">>)

\* calculateOdds without the parseFloat test
calculateOdds_NoParse(usersPoolBalance, totalPoolDeposits, winners) ==
  IF \/ usersPoolBalance = Undefined
     \/ StrictEqualsZero(usersPoolBalance)
    THEN Marker
    ELSE Over(Num(1, 1),
              Minus(Num(1, 1),
                    MathPow(Over(Minus(totalPoolDeposits, ToNumber(usersPoolBalance)),
                                 totalPoolDeposits),
                            winners)))

\* calculateOdds returning the probability instead of its reciprocal
calculateOdds_Probability(usersPoolBalance, totalPoolDeposits, winners) ==
  IF \/ usersPoolBalance = Undefined
     \/ StrictEqualsZero(usersPoolBalance)
     \/ StrictEqualsZero(parseFloat(usersPoolBalance))
    THEN Marker
    ELSE Minus(Num(1, 1),
               MathPow(Over(Minus(totalPoolDeposits, ToNumber(usersPoolBalance)),
                            totalPoolDeposits),
                       winners))

calculateOdds(usersPoolBalance, totalPoolDeposits, winners) ==
  IF \/ usersPoolBalance = Undefined
     \/ StrictEqualsZero(usersPoolBalance)
     \/ StrictEqualsZero(parseFloat(usersPoolBalance))
    THEN Marker
    ELSE Over(Num(1, 1),
              Minus(Num(1, 1),
                    MathPow(Over(Minus(totalPoolDeposits, ToNumber(usersPoolBalance)),
                                 totalPoolDeposits),
                            winners)))

\* largest totalPoolDeposits and winners tried
MaxDeposits == 4

MaxWinners == 3

\* usersPoolBalance as a number: halves up to MaxDeposits + 1, and NaN
NumberBalances == {Num(k, 2) : k \in 0..(2 * MaxDeposits + 2)} \cup {NaN}

\* usersPoolBalance as a string: those that parseFloat reads as 0 ...
ZeroStrings ==
  {Str(<<"0">>), Str(<<"0", ".", "0">>), Str(<<"0", "0">>), Str(<<" ", "0">>),
   Str(<<"-", "0">>), Str(<<".", "0">>), Str(<<"0", ".">>), Str(<<"0", "a", "b">>)}

\* ... and those it does not
OtherStrings ==
  {Str(<<>>), Str(<<" ">>), Str(<<"a", "b">>), Str(<<"3">>), Str(<<"1", ".", "5">>),
   Str(<<"0", ".", "5">>), Str(<<".", "5">>), Str(<<"-", "1">>), Str(<<"1", "0">>),
   Str(<<"0", ".", "0", "1">>), Str(<<"2", " ">>), Str(<<"2", "x">>), Str(<<".">>)}

Balances == {Undefined} \cup NumberBalances \cup ZeroStrings \cup OtherStrings

Pending == [t |-> "pending"]

OddsInit ==
  /\ PageInit
  /\ args \in [usersPoolBalance : Balances,
               totalPoolDeposits : {Num(k, 1) : k \in 0..MaxDeposits},
               winners : 0..MaxWinners]
  /\ ret = Pending

OddsCall ==
  /\ ret = Pending
  /\ ret' = calculateOdds(args.usersPoolBalance, args.totalPoolDeposits, args.winners)
  /\ UNCHANGED <<pageVars, args>>

OddsSpec == OddsInit /\ [][OddsCall]_vars

\* x >= 1
AtLeastOne(x) == x.t = "number" /\ ~IsNaN(x) /\ (IF x.d = 0 THEN x.n > 0 ELSE x.n >= x.d)

\* 0 < x < y
StrictlyBetweenZeroAnd(x, y) ==
  /\ x.t = "number" /\ x.d # 0 /\ y.d # 0
  /\ x.n > 0 /\ x.n * y.d < y.n * x.d

\* C7: calculateOdds returns the marker "ngmi" exactly when usersPoolBalance
\* is undefined, the number 0 or a string that parses to 0, whatever
\* totalPoolDeposits and winners are; otherwise it returns a number.
C7_Marker ==
  ret # Pending =>
    IF args.usersPoolBalance \in {Undefined, Num(0, 1)} \cup ZeroStrings
      THEN ret = Marker
      ELSE ret.t = "number"

C7_Witness ==
  /\ ret = Marker
  /\ args.usersPoolBalance = Str(<<"0">>)
  /\ args.totalPoolDeposits = Num(0, 1)

\* C8: for totalPoolDeposits > 0 and 0 < usersPoolBalance < totalPoolDeposits
\* the odds are at least 1, for every winners >= 0.
C8_OddsAtLeastOne ==
  (ret # Pending /\ StrictlyBetweenZeroAnd(args.usersPoolBalance, args.totalPoolDeposits))
     => AtLeastOne(ret)

C8_Witness ==
  /\ ret = Num(16, 7)
  /\ args.usersPoolBalance = Num(1, 1) /\ args.totalPoolDeposits = Num(4, 1)
  /\ args.winners = 2

(* ------------- getCreditMaturationDaysAndLimitPercentage --------------- *)

\* The mantissas of the model are multiples of 10^UnitExp wei, and a
\* BigNumber is the number of such units it holds.
UnitExp == 14

\* ethers.utils.formatEther: 18 decimals
EtherDecimals == 18

DivisionByZero == [t |-> "error", code |-> "NUMERIC_FAULT"]

BigNumber(k) == [t |-> "BigNumber", v |-> k]

\* BigNumber.gt(k)
BigNumberGt(a, k) == a.v > k

\* BigNumber.div for a dividend >= 0: the truncated quotient, an error for a
\* divisor 0
BigNumberDiv(a, b) == IF b.v = 0 THEN DivisionByZero ELSE BigNumber(a.v \div b.v)

\* BigNumber.toString
BigNumberToString(a) == Str(NatToChars(a.v))

\* the array a function returns
Array(elems) == [t |-> "array", e |-> elems]

\* ethers.utils.formatEther(wei): the decimal string of wei / 10^18, with at
\* least one digit after the point
formatEther(wei) ==
  LET den  == IntPow(10, EtherDecimals - UnitExp)
      frac == FractionChars(wei.v % den, den)
  IN Str(NatToChars(wei.v \div den) \o <<".">> \o (IF frac = <<>> THEN <<"0">> ELSE frac))

fractionToPercentage(fraction) == MathRound(Times(ToNumber(fraction), Num(100, 1)))

\* seconds is a number or the BigNumber a division returned, which the
\* arithmetic converts through its string
secondsToDaysForInput(seconds) ==
  LET secs == IF seconds.t = "BigNumber" THEN ToNumber(BigNumberToString(seconds))
              ELSE seconds
  IN Over(MathRound(Times(Over(Over(Over(secs, Num(60, 1)), Num(60, 1)), Num(24, 1)),
                          Num(10000, 1))),
          Num(10000, 1))

\* creditMaturationInSeconds with the test rate >= 0
creditMaturationInSeconds_Gte(ticketCreditRateMantissa, ticketCreditLimitMantissa) ==
  IF BigNumberGt(ticketCreditRateMantissa, -1)
    THEN BigNumberDiv(ticketCreditLimitMantissa, ticketCreditRateMantissa)
    ELSE Num(0, 1)

creditMaturationInSeconds(ticketCreditRateMantissa, ticketCreditLimitMantissa) ==
  IF BigNumberGt(ticketCreditRateMantissa, 0)
    THEN BigNumberDiv(ticketCreditLimitMantissa, ticketCreditRateMantissa)
    ELSE Num(0, 1)

getCreditMaturationDaysAndLimitPercentage(ticketCreditRateMantissa, ticketCreditLimitMantissa) ==
  LET creditLimitMantissa == formatEther(ticketCreditLimitMantissa)
      creditLimitPercentage == fractionToPercentage(creditLimitMantissa)
      seconds == creditMaturationInSeconds(ticketCreditRateMantissa, ticketCreditLimitMantissa)
  IN IF seconds = DivisionByZero THEN seconds
     ELSE Array(<<secondsToDaysForInput(seconds), creditLimitPercentage>>)

\* largest rate tried, in units per second
MaxRate == 6

\* limits tried, in units: 0..MaxSmallLimit and the multiples of
\* LimitStep up to MaxLimitSteps of them
MaxSmallLimit == 9

MaxLimitSteps == 8

LimitStep == 10800

Limits == 0..MaxSmallLimit \cup {k * LimitStep + 7 * k : k \in 1..MaxLimitSteps}

CreditInit ==
  /\ PageInit
  /\ args \in [ticketCreditRateMantissa : {BigNumber(k) : k \in -1..MaxRate},
               ticketCreditLimitMantissa : {BigNumber(k) : k \in Limits}]
  /\ ret = Pending

CreditCall ==
  /\ ret = Pending
  /\ ret' = getCreditMaturationDaysAndLimitPercentage(args.ticketCreditRateMantissa,
                                                      args.ticketCreditLimitMantissa)
  /\ UNCHANGED <<pageVars, args>>

CreditSpec == CreditInit /\ [][CreditCall]_vars

\* d is q seconds in days, rounded to a multiple of 1/10000, a tie going up
IsDaysOf(d, q) ==
  \E k \in 0..(q \div 8 + 1) :
     /\ d = Num(k, 10000)
     /\ 2 * (k * 86400 - q * 10000) <= 86400
     /\ 2 * (k * 86400 - q * 10000) > -86400

\* C9: the maturation is that of the integer quotient limit div rate when
\* rate > 0 and 0 otherwise; no division by zero is attempted.
C9_Maturation ==
  ret # Pending =>
    LET rate == args.ticketCreditRateMantissa.v
        limit == args.ticketCreditLimitMantissa.v
    IN /\ ret.t = "array"
       /\ rate <= 0 => ret.e[1] = Num(0, 1)
       /\ rate > 0 =>
            \E q \in 0..limit :
               /\ q * rate <= limit /\ limit < (q + 1) * rate
               /\ IsDaysOf(ret.e[1], q)

C9_Witness ==
  /\ ret.t = "array"
  /\ args.ticketCreditRateMantissa = BigNumber(0)
  /\ args.ticketCreditLimitMantissa.v > MaxSmallLimit
  /\ ret.e[1] = Num(0, 1) /\ ret.e[2] # Num(0, 1)

(* ------------------- properties of the listen helpers ------------------ *)

HelperOps == {"listenAndHandleRNGCompleteEvent", "listenAndHandleDepositEvent",
              "listenAndHandleRNGStartEvent"}

\* the handler h is registered under some filter
Registered(h) == \E p \in Pairs : \E i \in 1..Len(listeners[p]) : listeners[p][i] = h

\* the handler at position "pc"
Running == Head(run)

RECURSIVE SumOver(_, _)
SumOver(f, S) ==
  IF S = {} THEN 0
  ELSE LET x == CHOOSE y \in S : TRUE IN f[x] + SumOver(f, S \ {x})

\* callbacks invoked so far
TotalCalls == SumOver(calls, DOMAIN calls)

\* the filter a helper is documented to work on
OwnPair(name, networkID) ==
  IF name = "listenAndHandleRNGCompleteEvent"
    THEN <<"RandomNumberCompleted(uint32,uint256)", <<"PRIZE_STRATEGY_ADDRESS", networkID>>>>
  ELSE IF name = "listenAndHandleDepositEvent"
    THEN <<"Deposited(address,address,address,uint256,address)", <<"PRIZE_POOL_ADDRESS", networkID>>>>
  ELSE <<"RandomNumberRequested(uint32,address)", <<"PRIZE_STRATEGY_ADDRESS", networkID>>>>

\* a step that is a call of a listen helper which found its addresses
HelperCallStep == last'.op \in HelperOps /\ last'.net \in DOMAIN addresses

C1_State ==
  /\ pc \in {"eventHandler", "setTimeout"} =>
       /\ listeners[<<Running.topic, Running.addr>>] = <<>>
       /\ listeners[last.p] = <<>>
       /\ ~Registered(Running)
  /\ pc \in {"remove", "eventHandler"} => Running \notin DOMAIN calls
  /\ pc = "setTimeout" => Running \in DOMAIN calls /\ calls[Running] = 1
  /\ TotalCalls = timers + (IF pc = "setTimeout" THEN 1 ELSE 0)

C1_Step ==
  /\ pc = "remove" => pc' = "eventHandler" /\ calls' = calls /\ timers' = timers
  /\ pc = "eventHandler" =>
       pc' = "setTimeout" /\ listeners' = listeners /\ timers' = timers
  /\ pc = "setTimeout" =>
       pc' \in {"idle", "remove"} /\ listeners' = listeners /\ calls' = calls
                                   /\ timers' = timers + 1
  /\ pc = "idle" => calls' = calls /\ timers' = timers

\* C1: one firing of a registered handler removes the listeners of its own
\* (topic, contract address) filter, then invokes the callback once, then
\* schedules the reload once; the callback never runs while the handler is
\* still registered and no reload is scheduled before the callback ran.
C1_HandlerOrder == []C1_State /\ [][C1_Step]_vars

C1_Witness ==
  /\ pc = "idle" /\ last.op = "handlerFunc"
  /\ timers = 3
  /\ \A name \in HelperOps :
       \E h \in DOMAIN calls : <<h.topic, h.addr>> = OwnPair(name, 4) /\ calls[h] = 1

\* C2 as stated: after listenAndHandleRNGStartEvent with secondsLeft <= 0
\* the filter has exactly one listener, with secondsLeft > 0 it has none.
C2_Original ==
  (last.op = "listenAndHandleRNGStartEvent" /\ last.net \in DOMAIN addresses) =>
     Len(listeners[OwnPair(last.op, last.net)]) = (IF last.secs <= 0 THEN 1 ELSE 0)

\* C2 amended: listenAndHandleRNGStartEvent with secondsLeft <= 0 leaves one
\* listener more than before under its filter (exactly one when there was
\* none); with secondsLeft > 0 it leaves none, and changes nothing in the
\* registry when there was none.
C2_RNGStartCount ==
  [][(HelperCallStep /\ last'.op = "listenAndHandleRNGStartEvent") =>
       LET p == OwnPair(last'.op, last'.net) IN
         IF last'.secs <= 0
           THEN /\ Len(listeners'[p]) = Len(listeners[p]) + 1
                /\ listeners[p] = <<>> => Len(listeners'[p]) = 1
           ELSE /\ listeners'[p] = <<>>
                /\ listeners[p] = <<>> => listeners' = listeners]_vars

C2_Witness ==
  /\ last.op = "listenAndHandleRNGStartEvent" /\ last.secs > 0
  /\ last.net \in DOMAIN addresses
  /\ nextId = 3 /\ calls = <<>> /\ timers = 0
  /\ \A p \in Pairs : listeners[p] = <<>>

\* C3 as stated: at most one listener per (topic, contract address) filter
\* in every reachable state.
C3_Original == \A p \in Pairs : Len(listeners[p]) <= 1

\* C3 amended: a filter has more than one listener only after a helper was
\* called for it while it already had one: a step either leaves the
\* listeners of a filter alone, removes them all, or is a helper call that
\* adds one listener to its own filter and keeps those already there.
C3_NoDuplicateDetection ==
  [][\A p \in Pairs :
       \/ listeners'[p] = listeners[p]
       \/ listeners'[p] = <<>>
       \/ /\ HelperCallStep
          /\ p = OwnPair(last'.op, last'.net)
          /\ Len(listeners'[p]) = Len(listeners[p]) + 1
          /\ SubSeq(listeners'[p], 1, Len(listeners[p])) = listeners[p]]_vars

C3_Witness ==
  \E p \in Pairs : Len(listeners[p]) = 2 /\ last.op \in HelperOps /\ last.p = p

\* C4: the callback of one registration is invoked at most once; once it
\* has been invoked the registration is gone, and an event that finds no
\* registration invokes nothing.
C4_AtMostOnce ==
  /\ \A h \in DOMAIN calls : calls[h] = 1 /\ ~Registered(h)
  /\ (last.op = "event" /\ listeners[last.p] = <<>>) => pc = "idle" /\ run = <<>>

C4_Witness ==
  /\ last.op = "event" /\ pc = "idle"
  /\ \E h \in DOMAIN calls : <<h.topic, h.addr>> = last.p /\ calls[h] = 1

C6_LookupError ==
  [][(last'.op \in HelperOps /\ last'.net \notin DOMAIN addresses) =>
       /\ result' = "TypeError"
       /\ UNCHANGED <<listeners, nextId, calls, timers, run, pc, reloaded>>]_vars

C6_Witness ==
  /\ last.op = "listenAndHandleRNGStartEvent" /\ last.secs > 0
  /\ last.net \notin DOMAIN addresses
  /\ result = "TypeError"
  /\ listeners[OwnPair(last.op, 4)] # <<>>

\* C10: a helper call and a handler firing change the listeners of their
\* own (topic, contract address) filter only.
C10_Frame ==
  [][/\ HelperCallStep =>
          \A p \in Pairs \ {OwnPair(last'.op, last'.net)} : listeners'[p] = listeners[p]
     /\ pc # "idle" =>
          \A p \in Pairs \ {last.p} : listeners'[p] = listeners[p]
     /\ last'.op \in {"event", "reload"} => listeners' = listeners]_vars

C10_Witness ==
  /\ last.op = "listenAndHandleRNGStartEvent" /\ last.secs > 0
  /\ nextId = 4 /\ calls = <<>>
  /\ listeners[OwnPair("listenAndHandleRNGStartEvent", 4)] = <<>>
  /\ listeners[OwnPair("listenAndHandleRNGCompleteEvent", 4)] # <<>>
  /\ listeners[OwnPair("listenAndHandleDepositEvent", 4)] # <<>>

====
